---- MODULE Spec2Model ----
(***************************************************************************)
(* BoardApprovalsPanel: the approval queue of a board.  One component      *)
(* instance is modelled over its life (first render, mount, prop changes,  *)
(* unmount): its React state, the polling interval its effect owns, and    *)
(* the loadApprovals / handleDecision calls that are suspended at an await *)
(* (token retrieval, the HTTP request, the body).  The injectable variant  *)
(* (external approvals list, external decision handler) is the model; the  *)
(* simple variant is the same component with neither prop supplied.        *)
(*                                                                         *)
(* The UI event loop is single threaded: the synchronous part of a handler *)
(* and each continuation after an await run to completion, and React       *)
(* batches the state updates of one run, so each is one action.  The       *)
(* continuations between a call's awaits (getToken resolved: the request   *)
(* is issued; the response arrived: its body is read) update no state, so  *)
(* a suspended call is one position: started and not settled.  The backend *)
(* and the auth provider are outside the component: what they answer, and  *)
(* which await throws, is a nondeterministic choice.                       *)
(***************************************************************************)
EXTENDS Naturals, Integers, Sequences, FiniteSets, Bags, TLC

\* ------------------------------------------------------------ bounds
\* Calls in flight (loadApprovals and handleDecision calls together), length of a
\* GET response.
MaxInFlight == 2
MaxLen == 2
\* Length of a collection handed to the presenter.
MaxItems == 3

\* ------------------------------------------------------------ values
NULL == "<null>"
\* setInterval(loadApprovals, 15000).  Time is not modelled: a tick may come at any
\* step while its interval is active.
PollIntervalMs == 15000

Ids == {"a", "b"}
Boards == {"b1", "b2"}
NoBoard == ""
Statuses == {"pending", "approved", "rejected"}
DecisionStatuses == {"approved", "rejected"}
\* created_at is a string.  The fetcher and the decision submitter never read it:
\* one value stands for all of them there.  The presenter parses it: CreatedAts
\* are the strings it is given (an instant, a later instant, and the empty string,
\* which no Date parses).
Times == {"1970-01-01T00:00:01Z"}
CreatedAts == Times \cup {"1970-01-01T00:00:02Z", ""}

\* type Approval (the fields the component's logic reads)
Approval == [id : Ids, status : Statuses, created_at : Times]

LoadFailedMessage == "Unable to load approvals."
UpdateFailedMessage == "Unable to update approval."
\* The message of an Error raised by a collaborator (fetch's TypeError, the auth
\* provider's rejection, res.json()'s SyntaxError).
ForeignMessage == "Failed to fetch"

RECURSIVE SeqsUpTo(_, _)
SeqsUpTo(S, n) ==
    IF n = 0 THEN {<<>>}
    ELSE LET shorter == SeqsUpTo(S, n - 1)
         IN shorter \cup {Append(s, x) : s \in {t \in shorter : Len(t) = n - 1}, x \in S}

idsOf(approvals) == {approvals[i].id : i \in DOMAIN approvals}
UniqueIds(approvals) ==
    \A i, j \in DOMAIN approvals : approvals[i].id = approvals[j].id => i = j

\* What GET .../approvals may answer: a JSON array of Approval records, one per id.
FetchResponses == {r \in SeqsUpTo(Approval, MaxLen) : UniqueIds(r)}
\* What PATCH .../approvals/{id} may answer: a JSON object, any Approval.
PatchResponses == Approval

\* What an await of a call may throw.  isError: err instanceof Error.
\*   error     an Error of a collaborator: getToken() or fetch() rejects, or
\*             res.json() does (SyntaxError)
\*   non_error getToken() rejects with a value that is no Error
\*   not_ok    the response is non-2xx: the code throws its own Error
Failures == {"error", "non_error", "not_ok"}
Thrown(kind, ownMessage) ==
    CASE kind = "not_ok" -> [isError |-> TRUE, message |-> ownMessage]
      [] kind = "non_error" -> [isError |-> FALSE, message |-> NULL]
      [] OTHER -> [isError |-> TRUE, message |-> ForeignMessage]

\* err instanceof Error ? err.message : fallback
caughtMessage(err, fallback) == IF err.isError THEN err.message ELSE fallback

VARIABLES
    lifecycle,          \* "rendered" (before the effect ran), "mounted", "unmounted"
    boardId,            \* prop boardId ("" is empty)
    isSignedIn,         \* useAuth().isSignedIn
    usingExternal,      \* Array.isArray(externalApprovals)
    onDecision,         \* TRUE when the prop onDecision is supplied
    internalApprovals,  \* useState<Approval[]>([])
    isLoading,          \* useState(false)
    error,              \* useState<string | null>(null)
    updatingId,         \* useState<string | null>(null)
    timers,             \* bag of active intervals, each the loadApprovals closure it calls
    interval,           \* the intervals the effect's pending cleanup clears (none or one)
    effectPending,      \* a re-render whose effect dependencies changed is committed
                        \* and its effect (cleanup, then body) has not run yet
    loads,              \* the number of suspended loadApprovals calls
    decisions,          \* bag of suspended handleDecision calls, each its approvalId
    handlerCalls,       \* the calls of the external onDecision the last step made,
                        \* each the arguments it received
    last                \* history: the step that led here (the handler that ran,
                        \* with its arguments, or the settlement, with its outcome)

vars == <<lifecycle, boardId, isSignedIn, usingExternal, onDecision,
          internalApprovals, isLoading, error, updatingId, timers, interval, effectPending,
          effectPending, loads, decisions, handlerCalls, last>>

props == <<boardId, isSignedIn, usingExternal, onDecision>>
state == <<internalApprovals, isLoading, error, updatingId>>

\* The values a render's callbacks close over: loadApprovals (useCallback over
\* boardId, getToken, isSignedIn, usingExternal) and handleDecision (the same and
\* onDecision).
loadClosure == [boardId |-> boardId, isSignedIn |-> isSignedIn,
                usingExternal |-> usingExternal]
closure == [boardId |-> boardId, isSignedIn |-> isSignedIn,
            usingExternal |-> usingExternal, onDecision |-> onDecision]

Step(op) == [op |-> op, id |-> NULL, status |-> NULL, kind |-> NULL,
             matched |-> FALSE, data |-> <<>>]

\* The state after the first render, before its effect has run.
InitState ==
    /\ lifecycle = "rendered"
    /\ internalApprovals = <<>>
    /\ isLoading = FALSE
    /\ error = NULL
    /\ updatingId = NULL
    /\ timers = EmptyBag
    /\ interval = {}
    /\ effectPending = FALSE
    /\ loads = 0
    /\ decisions = EmptyBag
    /\ handlerCalls = <<>>
    /\ last = Step("init")

\* The props of the first render are the host's choice; the simple variant has
\* neither an approvals list nor a decision handler.
Init ==
    /\ InitState
    /\ boardId \in Boards \cup {NoBoard}
    /\ isSignedIn \in BOOLEAN
    /\ usingExternal \in BOOLEAN
    /\ onDecision \in BOOLEAN

\* ------------------------------------------------------------ loadApprovals
\* The guards of loadApprovals: TRUE when the call returns at once.
loadReturnsEarly(cl) == cl.usingExternal \/ ~cl.isSignedIn \/ cl.boardId = NoBoard

\* The synchronous part of loadApprovals, up to `await getToken()`.
loadApprovals(cl) ==
    IF loadReturnsEarly(cl)
    THEN UNCHANGED <<isLoading, error, loads>>
    ELSE /\ loads + BagCardinality(decisions) < MaxInFlight
         /\ isLoading' = TRUE
         /\ error' = NULL
         /\ loads' = loads + 1

\* Seeded fault: the response is merged into the prior collection (entries whose id
\* the response lacks are kept) instead of replacing it.
LoadSucceedsMerging(data) ==
    /\ loads > 0
    /\ loads' = loads - 1
    /\ internalApprovals' =
          data \o SelectSeq(internalApprovals, LAMBDA item : item.id \notin idsOf(data))
    /\ isLoading' = FALSE
    /\ handlerCalls' = <<>>
    /\ last' = [Step("loadOk") EXCEPT !.data = data]
    /\ UNCHANGED <<lifecycle, props, error, updatingId, timers, interval, effectPending,
                   decisions>>

\* A call's response is 2xx and parses: setInternalApprovals(data); finally.
LoadSucceeds(data) ==
    /\ loads > 0
    /\ loads' = loads - 1
    /\ internalApprovals' = data
    /\ isLoading' = FALSE
    /\ handlerCalls' = <<>>
    /\ last' = [Step("loadOk") EXCEPT !.data = data]
    /\ UNCHANGED <<lifecycle, props, error, updatingId, timers, interval, effectPending,
                   decisions>>

\* Seeded fault: the catch also empties the collection.
LoadFailsClearing(kind) ==
    /\ loads > 0
    /\ loads' = loads - 1
    /\ internalApprovals' = <<>>
    /\ error' = caughtMessage(Thrown(kind, LoadFailedMessage), LoadFailedMessage)
    /\ isLoading' = FALSE
    /\ handlerCalls' = <<>>
    /\ last' = [Step("loadFail") EXCEPT !.kind = kind]
    /\ UNCHANGED <<lifecycle, props, updatingId, timers, interval, effectPending, decisions>>

\* An await of a call threw: catch sets the error; finally.
LoadFails(kind) ==
    /\ loads > 0
    /\ loads' = loads - 1
    /\ error' = caughtMessage(Thrown(kind, LoadFailedMessage), LoadFailedMessage)
    /\ isLoading' = FALSE
    /\ handlerCalls' = <<>>
    /\ last' = [Step("loadFail") EXCEPT !.kind = kind]
    /\ UNCHANGED <<lifecycle, props, internalApprovals, updatingId, timers, interval, effectPending,
                   decisions>>

\* ------------------------------------------------------------ handleDecision
\* Seeded fault: an upsert, which appends the record when no entry has the id.
mergeUpsert(prev, approvalId, updated) ==
    IF approvalId \in idsOf(prev)
    THEN [i \in DOMAIN prev |-> IF prev[i].id = approvalId THEN updated ELSE prev[i]]
    ELSE Append(prev, updated)

\* prev.map((item) => (item.id === approvalId ? updated : item))
mergeUpdated(prev, approvalId, updated) ==
    [i \in DOMAIN prev |-> IF prev[i].id = approvalId THEN updated ELSE prev[i]]

\* The guards of handleDecision after the delegation: TRUE when it returns at once.
decisionReturnsEarly(cl) == cl.usingExternal \/ ~cl.isSignedIn \/ cl.boardId = NoBoard

\* if (onDecision) { onDecision(approvalId, status); return; }
delegateDecision(approvalId, status) ==
    /\ handlerCalls' = <<<<approvalId, status>>>>
    /\ UNCHANGED <<state, decisions>>

\* The synchronous part of the self-managed handleDecision, up to `await getToken()`.
startDecision(cl, approvalId, status) ==
    /\ loads + BagCardinality(decisions) < MaxInFlight
    /\ updatingId' = approvalId
    /\ error' = NULL
    /\ decisions' = decisions (+) SetToBag({approvalId})
    /\ UNCHANGED <<internalApprovals, isLoading>>

\* Seeded fault: the session and board guards run before the delegation.
handleDecisionGuardsFirst(cl, approvalId, status) ==
    IF cl.usingExternal \/ ~cl.isSignedIn \/ cl.boardId = NoBoard
    THEN /\ handlerCalls' = <<>>
         /\ UNCHANGED <<state, decisions>>
    ELSE IF cl.onDecision
    THEN /\ handlerCalls' = <<<<approvalId, status>>>>
         /\ UNCHANGED <<state, decisions>>
    ELSE /\ handlerCalls' = <<>>
         /\ loads + BagCardinality(decisions) < MaxInFlight
         /\ updatingId' = approvalId
         /\ error' = NULL
         /\ decisions' = decisions (+) SetToBag({approvalId})
         /\ UNCHANGED <<internalApprovals, isLoading>>

\* handleDecision(approvalId, status) as the render with closure cl defined it.
handleDecision(cl, approvalId, status) ==
    IF cl.onDecision
    THEN delegateDecision(approvalId, status)
    ELSE IF decisionReturnsEarly(cl)
    THEN /\ handlerCalls' = <<>>
         /\ UNCHANGED <<state, decisions>>
    ELSE /\ handlerCalls' = <<>>
         /\ startDecision(cl, approvalId, status)

\* Seeded fault: the marker is not cleared on success (no finally).
DecisionSucceedsNoFinally(approvalId, updated) ==
    /\ BagIn(approvalId, decisions)
    /\ decisions' = decisions (-) SetToBag({approvalId})
    /\ internalApprovals' =
          [i \in DOMAIN internalApprovals |->
              IF internalApprovals[i].id = approvalId THEN updated
              ELSE internalApprovals[i]]
    /\ handlerCalls' = <<>>
    /\ last' = [Step("decisionOk") EXCEPT !.id = approvalId,
                                          !.matched = approvalId \in idsOf(internalApprovals)]
    /\ UNCHANGED <<lifecycle, props, isLoading, error, updatingId, timers, interval, effectPending,
                   loads>>

\* The call's response is 2xx and parses: the functional update of the collection;
\* finally.
DecisionSucceeds(approvalId, updated) ==
    /\ BagIn(approvalId, decisions)
    /\ decisions' = decisions (-) SetToBag({approvalId})
    /\ internalApprovals' = mergeUpdated(internalApprovals, approvalId, updated)
    /\ updatingId' = NULL
    /\ handlerCalls' = <<>>
    /\ last' = [Step("decisionOk") EXCEPT !.id = approvalId,
                                          !.matched = approvalId \in idsOf(internalApprovals)]
    /\ UNCHANGED <<lifecycle, props, isLoading, error, timers, interval, effectPending, loads>>

\* Seeded fault: the marker is cleared in the try block only, not on failure.
DecisionFailsNoFinally(approvalId, kind) ==
    /\ BagIn(approvalId, decisions)
    /\ decisions' = decisions (-) SetToBag({approvalId})
    /\ error' = caughtMessage(Thrown(kind, UpdateFailedMessage), UpdateFailedMessage)
    /\ handlerCalls' = <<>>
    /\ last' = [Step("decisionFail") EXCEPT !.id = approvalId, !.kind = kind]
    /\ UNCHANGED <<lifecycle, props, internalApprovals, isLoading, updatingId, timers,
                   interval, effectPending, loads>>

\* Seeded fault: a failed request is issued again (the call stays in flight).
DecisionFailsRetrying(approvalId, kind) ==
    /\ BagIn(approvalId, decisions)
    /\ decisions' = decisions
    /\ error' = caughtMessage(Thrown(kind, UpdateFailedMessage), UpdateFailedMessage)
    /\ updatingId' = NULL
    /\ handlerCalls' = <<>>
    /\ last' = [Step("decisionFail") EXCEPT !.id = approvalId, !.kind = kind]
    /\ UNCHANGED <<lifecycle, props, internalApprovals, isLoading, timers, interval, effectPending,
                   loads>>

\* An await of the call threw: catch sets the error; finally.
DecisionFails(approvalId, kind) ==
    /\ BagIn(approvalId, decisions)
    /\ decisions' = decisions (-) SetToBag({approvalId})
    /\ error' = caughtMessage(Thrown(kind, UpdateFailedMessage), UpdateFailedMessage)
    /\ updatingId' = NULL
    /\ handlerCalls' = <<>>
    /\ last' = [Step("decisionFail") EXCEPT !.id = approvalId, !.kind = kind]
    /\ UNCHANGED <<lifecycle, props, internalApprovals, isLoading, timers, interval, effectPending,
                   loads>>

\* ------------------------------------------------------------ the polling effect
\* return () => clearInterval(interval): the cleanup of the effect's last run, when
\* that run registered one.
clearInterval(active, handles) == active (-) SetToBag(handles)

\* The effect's body under the render with closure cl, the previous run's cleanup
\* done first.
pollingEffect(cl) ==
    LET cleaned == clearInterval(timers, interval) IN
    IF cl.usingExternal
    THEN /\ UNCHANGED <<isLoading, error, loads>>
         /\ timers' = cleaned
         /\ interval' = {}
    ELSE /\ loadApprovals(cl)
         /\ IF ~cl.isSignedIn \/ cl.boardId = NoBoard
            THEN timers' = cleaned /\ interval' = {}
            ELSE timers' = cleaned (+) SetToBag({cl}) /\ interval' = {cl}

\* The first commit: the effect runs.
Mount ==
    /\ lifecycle = "rendered"
    /\ lifecycle' = "mounted"
    /\ pollingEffect(loadClosure)
    /\ handlerCalls' = <<>>
    /\ last' = Step("effect")
    /\ UNCHANGED <<props, internalApprovals, updatingId, effectPending, decisions>>

\* Unmounting runs the cleanup of the effect's last run.  React runs a pending
\* effect before it commits anything else, so none is pending here.
Unmount ==
    /\ lifecycle = "mounted" /\ ~effectPending
    /\ lifecycle' = "unmounted"
    /\ timers' = clearInterval(timers, interval)
    /\ interval' = {}
    /\ handlerCalls' = <<>>
    /\ last' = Step("unmount")
    /\ UNCHANGED <<props, state, effectPending, loads, decisions>>

\* The host re-renders the component and the render is committed: any of the props
\* boardId, approvals (usingExternal = Array.isArray(externalApprovals)) and
\* onDecision and of useAuth()'s isSignedIn and getToken may have changed, several
\* in one commit.  boardId, isSignedIn, usingExternal and loadApprovals (which
\* changes with them and with getToken) are dependencies of the effect: when one
\* changed the effect is scheduled, and runs in a later task (RunEffect).  Until
\* then the interval of the previous run is active, with the loadApprovals of the
\* render that registered it.  onDecision alone makes handleDecision a new callback
\* and schedules nothing.  A pending effect runs before the next render.
Rerender(b, s, x, h, newGetToken) ==
    /\ lifecycle = "mounted" /\ ~effectPending
    /\ <<b, s, x, h>> # props \/ newGetToken
    /\ boardId' = b
    /\ isSignedIn' = s
    /\ usingExternal' = x
    /\ onDecision' = h
    /\ effectPending' = (<<b, s, x>> # <<boardId, isSignedIn, usingExternal>> \/ newGetToken)
    /\ handlerCalls' = <<>>
    /\ last' = Step("commit")
    /\ UNCHANGED <<lifecycle, state, timers, interval, loads, decisions>>

\* The scheduled effect runs: the cleanup of its previous run, then its body under
\* the committed render.
RunEffect ==
    /\ lifecycle = "mounted" /\ effectPending
    /\ effectPending' = FALSE
    /\ pollingEffect(loadClosure)
    /\ handlerCalls' = <<>>
    /\ last' = Step("effect")
    /\ UNCHANGED <<lifecycle, props, internalApprovals, updatingId, decisions>>

\* An interval fires: it calls the loadApprovals it was created with.
TimerTick(t) ==
    /\ BagIn(t, timers)
    /\ loadApprovals(t)
    /\ handlerCalls' = <<>>
    /\ last' = Step("tick")
    /\ UNCHANGED <<lifecycle, props, internalApprovals, updatingId, timers, interval, effectPending,
                   decisions>>

\* ------------------------------------------------------------ the rendered controls
\* The Refresh button (onClick = loadApprovals; a host's onRefresh, when supplied,
\* runs instead and touches nothing of the component).
Refresh ==
    /\ lifecycle # "unmounted"
    /\ loadApprovals(loadClosure)
    /\ handlerCalls' = <<>>
    /\ last' = Step("refresh")
    /\ UNCHANGED <<lifecycle, props, internalApprovals, updatingId, timers, interval, effectPending,
                   decisions>>

\* The Approve and Reject buttons of an approval are rendered when the list is
\* (not while loading) and the approval is pending.  A host's external list and
\* loading flag are the host's: any id may be shown.
decisionControlsShown(approvalId) ==
    IF usingExternal
    THEN TRUE
    ELSE /\ ~isLoading
         /\ \E i \in DOMAIN internalApprovals :
               /\ internalApprovals[i].id = approvalId
               /\ internalApprovals[i].status = "pending"

\* disabled={updatingId === approval.id}
decisionControlsEnabled(approvalId) == updatingId # approvalId

\* A click on Approve or Reject: onClick={() => handleDecision(approval.id, ...)}
ClickDecision(approvalId, status) ==
    /\ lifecycle # "unmounted"
    /\ decisionControlsShown(approvalId)
    /\ decisionControlsEnabled(approvalId)
    /\ handleDecision(closure, approvalId, status)
    /\ last' = [Step("handleDecision") EXCEPT !.id = approvalId, !.status = status]
    /\ UNCHANGED <<lifecycle, props, timers, interval, effectPending, loads>>

\* ------------------------------------------------------------ the presenter
\* A JavaScript number as far as the comparator needs it: NaN, or an integer.
NaN == [nan |-> TRUE, value |-> 0]
Num(n) == [nan |-> FALSE, value |-> n]

\* new Date(created_at).getTime(): milliseconds since the epoch, NaN for a string
\* that is no date.
getTime(created_at) ==
    CASE created_at = "1970-01-01T00:00:01Z" -> Num(1000)
      [] created_at = "1970-01-01T00:00:02Z" -> Num(2000)
      [] OTHER -> NaN

\* Seeded fault: the comparator is aTime - bTime (oldest first).
compareOldestFirst(a, b) ==
    LET aTime == getTime(a.created_at)
        bTime == getTime(b.created_at)
    IN  IF aTime.nan \/ bTime.nan THEN NaN ELSE Num(aTime.value - bTime.value)

\* (a, b) => bTime - aTime
compareByTime(a, b) ==
    LET aTime == getTime(a.created_at)
        bTime == getTime(b.created_at)
    IN  IF aTime.nan \/ bTime.nan THEN NaN ELSE Num(bTime.value - aTime.value)

\* Array.prototype.sort reads the comparator's result by its sign, NaN as +0.
sortOrder(a, b) ==
    LET v == compareByTime(a, b)
    IN  IF v.nan THEN 0 ELSE IF v.value < 0 THEN -1 ELSE IF v.value > 0 THEN 1 ELSE 0

\* The comparator is consistent on the items (ECMAScript's condition for a defined
\* sort order): equality, less-than and greater-than by it are transitive.  It
\* is reflexive and antisymmetric by construction.
consistentComparator(items) ==
    \A i, j, k \in DOMAIN items :
        LET ij == sortOrder(items[i], items[j])
            jk == sortOrder(items[j], items[k])
            ik == sortOrder(items[i], items[k])
        IN  ij = jk => ik = ij

\* x placed in a sorted list behind every entry that does not sort after it.
insertStable(sorted, x) ==
    LET after == {i \in DOMAIN sorted : sortOrder(sorted[i], x) > 0}
        at == IF after = {} THEN Len(sorted) + 1
              ELSE CHOOSE i \in after : \A j \in after : i <= j
    IN  SubSeq(sorted, 1, at - 1) \o <<x>> \o SubSeq(sorted, at, Len(sorted))

RECURSIVE stableSort(_)
stableSort(items) ==
    IF items = <<>> THEN <<>>
    ELSE insertStable(stableSort(SubSeq(items, 1, Len(items) - 1)), items[Len(items)])

orderings(items) ==
    {[i \in DOMAIN items |-> items[p[i]]] :
        p \in {q \in [DOMAIN items -> DOMAIN items] :
                  \A i, j \in DOMAIN items : q[i] = q[j] => i = j}}

\* [...items].sort(compare): the orders the copy may come back in.  The sort is
\* stable, so a consistent comparator has one outcome; with an inconsistent one
\* (a NaN between two different instants) the order is the engine's choice.
sortByTime(items) ==
    IF consistentComparator(items) THEN {stableSort(items)} ELSE orderings(items)

\* Seeded fault: the second filter keeps the approved records only.
isApproved(item) == item.status = "approved"

isPending(item) == item.status = "pending"
isResolved(item) == item.status # "pending"

\* useMemo(..., [approvals]) of the injectable variant: { pending, resolved }.
sortedApprovals(approvals) ==
    {[pending |-> p, resolved |-> r] :
        p \in sortByTime(SelectSeq(approvals, isPending)),
        r \in sortByTime(SelectSeq(approvals, isResolved))}

\* useMemo(..., [approvals]) of the simple variant: one list.
sortedApprovalsList(approvals) ==
    {p \o r : p \in sortByTime(SelectSeq(approvals, isPending)),
              r \in sortByTime(SelectSeq(approvals, isResolved))}

\* The collections the presenter is handed: any records, in any order (an external
\* list is the host's, and the internal one is what the server answered).
PresentedApproval == [id : Ids, status : Statuses, created_at : CreatedAts]

\* A mounted, polling instance holding a collection, before the render that
\* presents it.
PresenterInit ==
    /\ lifecycle = "mounted"
    /\ boardId = "b1"
    /\ isSignedIn = TRUE
    /\ usingExternal = FALSE
    /\ onDecision = FALSE
    /\ internalApprovals \in SeqsUpTo(PresentedApproval, MaxItems)
    /\ isLoading = FALSE
    /\ error = NULL
    /\ updatingId = NULL
    /\ timers = SetToBag({loadClosure})
    /\ interval = {loadClosure}
    /\ effectPending = FALSE
    /\ loads = 0
    /\ decisions = EmptyBag
    /\ handlerCalls = <<>>
    /\ last = Step("init")

\* The render of the injectable variant computes sortedApprovals.
Render ==
    /\ last.op = "init"
    /\ \E out \in sortedApprovals(internalApprovals) :
          last' = [Step("render") EXCEPT !.data = out]
    /\ UNCHANGED <<lifecycle, props, state, timers, interval, effectPending, loads, decisions,
                   handlerCalls>>

\* The render of the simple variant computes the single list.
RenderList ==
    /\ last.op = "init"
    /\ \E out \in sortedApprovalsList(internalApprovals) :
          last' = [Step("renderList") EXCEPT !.data = out]
    /\ UNCHANGED <<lifecycle, props, state, timers, interval, effectPending, loads, decisions,
                   handlerCalls>>

NextPresenter ==
    \/ Render
    \/ RenderList

\* ------------------------------------------------------------ specification
Next ==
    \/ Mount
    \/ Unmount
    \/ \E b \in Boards \cup {NoBoard}, s, x, h, newGetToken \in BOOLEAN :
          Rerender(b, s, x, h, newGetToken)
    \/ RunEffect
    \/ \E t \in BagToSet(timers) : TimerTick(t)
    \/ Refresh
    \/ \E id \in Ids, st \in DecisionStatuses : ClickDecision(id, st)
    \/ \E data \in FetchResponses : LoadSucceeds(data)
    \/ \E k \in Failures : LoadFails(k)
    \/ \E id \in Ids, u \in PatchResponses : DecisionSucceeds(id, u)
    \/ \E id \in Ids, k \in Failures : DecisionFails(id, k)

Spec == Init /\ [][Next]_vars

\* The presenter alone, over every collection up to MaxItems records.
SpecPresenter == PresenterInit /\ [][NextPresenter]_vars

\* ------------------------------------------------------------ properties
\* C1: a successful decision for approval id X changes at most the entries whose id
\* is X: every entry with another id is unchanged and keeps its position, and the
\* length of the collection is unchanged, also when no entry has id X any more.
C1_MergeTouchesOnlyTarget ==
    [][last'.op = "decisionOk" =>
         /\ Len(internalApprovals') = Len(internalApprovals)
         /\ \A i \in DOMAIN internalApprovals :
               internalApprovals[i].id # last'.id
                  => internalApprovals'[i] = internalApprovals[i]]_vars

\* A decision succeeded for an id that a fetch had meanwhile removed from a
\* collection that is not empty.
C1_Witness ==
    /\ last.op = "decisionOk"
    /\ ~last.matched
    /\ internalApprovals # <<>>

\* C2: a failed fetch leaves the collection unchanged and sets a non-null error
\* string, whatever else is in flight.
C2_FailedFetchKeepsCollection ==
    [][last'.op = "loadFail" =>
         /\ internalApprovals' = internalApprovals
         /\ error' # NULL]_vars

\* A fetch failed over a loaded collection while another call was in flight.
C2_Witness ==
    /\ last.op = "loadFail"
    /\ internalApprovals # <<>>
    /\ error # NULL
    /\ (loads > 0 \/ decisions # EmptyBag)

\* C3 as stated: when a successful decision for X has completed, the error string is
\* null and the updating marker is not X, whatever settled in the meantime.
C3_SuccessLeavesNoError ==
    last.op = "decisionOk" => error = NULL /\ updatingId # last.id

\* C3 amended: a successful decision sets the updating marker to null and does not
\* touch the error string; the error string is null when a decision call starts, and
\* only a failed fetch or a failed decision makes it non-null.
C3_SuccessClearsMarkerKeepsError ==
    [][/\ (last'.op = "decisionOk" => updatingId' = NULL /\ error' = error)
       /\ (BagCardinality(decisions') > BagCardinality(decisions) => error' = NULL)
       /\ (error' # NULL /\ error' # error
              => last'.op \in {"loadFail", "decisionFail"})]_vars

\* A decision succeeded after a fetch or another decision had failed during its
\* flight: the marker is null and the failure's message stands.
C3_Witness ==
    /\ last.op = "decisionOk"
    /\ error # NULL
    /\ updatingId = NULL

\* C4: when the PATCH of a decision answers non-2xx, the error string becomes exactly
\* "Unable to update approval.", the collection is unchanged and the updating marker
\* is null.
C4_FailedPatch ==
    [][last'.op = "decisionFail" /\ last'.kind = "not_ok" =>
         /\ error' = UpdateFailedMessage
         /\ internalApprovals' = internalApprovals
         /\ updatingId' = NULL]_vars

\* The PATCH for a pending record answered non-2xx: the record is still pending.
C4_Witness ==
    /\ last.op = "decisionFail"
    /\ last.kind = "not_ok"
    /\ error = UpdateFailedMessage
    /\ updatingId = NULL
    /\ \E i \in DOMAIN internalApprovals :
          internalApprovals[i].id = last.id /\ internalApprovals[i].status = "pending"

\* C5 as stated: while the session is not signed in or the board identifier is
\* empty, no step of the component's own (a Refresh click, a decision click, a timer
\* tick, an effect run) starts a call or changes the collection, the loading flag,
\* the error string or the updating marker, and an effect run leaves no timer.
C5_GuardsMakeNoop ==
    [][(~isSignedIn \/ boardId = NoBoard)
         /\ last'.op \in {"refresh", "handleDecision", "tick", "effect"}
         => /\ UNCHANGED <<state, loads, decisions>>
            /\ (last'.op = "effect" => timers' = EmptyBag)]_vars

\* C6: when a fetch succeeds the collection becomes exactly the response of that
\* request, whatever was merged or loaded since the request was issued.
C6_FetchReplacesCollection ==
    last.op = "loadOk" => internalApprovals = last.data

\* A fetch succeeded with a non-empty response while another fetch was in flight.
C6_Witness ==
    /\ last.op = "loadOk"
    /\ last.data # <<>>
    /\ loads > 0

\* C7 as stated: while a loadApprovals call that passed its guards has not settled,
\* the loading flag is true.
C7_LoadingWhileInFlight ==
    loads > 0 => isLoading

\* C8 as stated: while a self-managed decision request for X is in flight the
\* updating marker equals X, so no second request for X is in flight.
C8_MarkerWhileInFlight ==
    \A id \in Ids :
        BagIn(id, decisions) => updatingId = id /\ CopiesIn(id, decisions) = 1

\* The polling timer in a state: at most one is active, none unless mounted.
TimerState ==
    /\ BagCardinality(timers) <= 1
    /\ (lifecycle # "mounted" => timers = EmptyBag)

\* What starts a fetch: one call per step, in an effect run (mount, or a change of
\* board or session), a tick or a Refresh click; an effect run that ends signed in
\* with a board starts exactly one call and leaves exactly one timer; a tick fires
\* only while mounted, and calls the loadApprovals of the current board and session.
FetchTriggers ==
    /\ (loads' > loads
          => loads' = loads + 1 /\ last'.op \in {"effect", "tick", "refresh"})
    /\ (last'.op = "effect" /\ ~usingExternal' /\ isSignedIn' /\ boardId' # NoBoard
          => loads' = loads + 1 /\ BagCardinality(timers') = 1)
    /\ (last'.op = "tick" => lifecycle = "mounted" /\ BagIn(loadClosure, timers))

\* C9 as stated: the fetch is invoked once when the component mounts or the board or
\* session changes, and afterwards only by timer ticks and Refresh clicks; at most
\* one polling timer is active; it is torn down on unmount and on every board or
\* session change, so no tick starts a fetch after unmount or for a previous board.
C9_PollingTimer == [](TimerState) /\ [][FetchTriggers]_vars

\* C10: with an external decision handler, a handleDecision(id, status) call invokes
\* the handler exactly once with that id and status, starts no call and changes none
\* of the component's state, signed in or not, external list or not.
C10_DelegatesEntirely ==
    [][last'.op = "handleDecision" /\ onDecision =>
         /\ handlerCalls' = <<<<last'.id, last'.status>>>>
         /\ UNCHANGED <<state, loads, decisions>>]_vars

\* The handler was invoked by a click while signed out, on the component's own list.
C10_Witness ==
    /\ last.op = "handleDecision"
    /\ onDecision /\ ~usingExternal /\ ~isSignedIn
    /\ Len(handlerCalls) = 1

\* ------------------------------------------------------------ presenter properties
occurrences(list, x) == Cardinality({i \in DOMAIN list : list[i] = x})
recordsOf(list) == {list[i] : i \in DOMAIN list}
allParse(list) == \A i \in DOMAIN list : ~getTime(list[i].created_at).nan
mostRecentFirst(list) ==
    \A i \in DOMAIN list : i < Len(list) =>
        getTime(list[i].created_at).value >= getTime(list[i + 1].created_at).value

\* C11: the presenter's partition is a strict complement.  Every record of the
\* collection is in exactly one of pending and resolved, as often as it is in the
\* collection, and it is in pending exactly when its status is "pending"; the single
\* list of the simple variant holds the same records as the collection.
C11_PartitionIsComplement ==
    /\ last.op = "render" =>
          \A x \in recordsOf(internalApprovals) \cup recordsOf(last.data.pending)
                    \cup recordsOf(last.data.resolved) :
              /\ occurrences(last.data.pending, x) + occurrences(last.data.resolved, x)
                    = occurrences(internalApprovals, x)
              /\ occurrences(last.data.pending, x) > 0 => x.status = "pending"
              /\ occurrences(last.data.resolved, x) > 0 => x.status # "pending"
    /\ last.op = "renderList" =>
          \A x \in recordsOf(internalApprovals) \cup recordsOf(last.data) :
              occurrences(last.data, x) = occurrences(internalApprovals, x)

\* A collection of three records, pending and resolved ones, two of them the same
\* record, has been partitioned.
C11_Witness ==
    /\ last.op = "render"
    /\ Len(internalApprovals) = MaxItems
    /\ last.data.pending # <<>>
    /\ Len(last.data.resolved) = 2
    /\ last.data.resolved[1] = last.data.resolved[2]
    /\ last.data.resolved[1].status = "rejected"

\* C12: within each partition the records are most recent first (each entry's
\* created_at is at or after the next one's) whenever all timestamps of the
\* partition parse; the simple variant's list is the pending records in that order
\* followed by the resolved records in that order.
C12_MostRecentFirst ==
    /\ last.op = "render" =>
          /\ allParse(last.data.pending) => mostRecentFirst(last.data.pending)
          /\ allParse(last.data.resolved) => mostRecentFirst(last.data.resolved)
    /\ last.op = "renderList" =>
          LET n == Cardinality({i \in DOMAIN internalApprovals :
                                   internalApprovals[i].status = "pending"})
              head == SubSeq(last.data, 1, n)
              tail == SubSeq(last.data, n + 1, Len(last.data))
          IN  /\ \A i \in DOMAIN head : head[i].status = "pending"
              /\ \A i \in DOMAIN tail : tail[i].status # "pending"
              /\ allParse(head) => mostRecentFirst(head)
              /\ allParse(tail) => mostRecentFirst(tail)

\* The sort moved a record: the collection had three pending records, oldest
\* first, all with timestamps that parse.
C12_Witness ==
    /\ last.op = "render"
    /\ Len(last.data.pending) = MaxItems
    /\ allParse(internalApprovals)
    /\ getTime(internalApprovals[1].created_at).value
          < getTime(internalApprovals[MaxItems].created_at).value
    /\ last.data.pending # internalApprovals

\* ------------------------------------------------------------ collection properties
\* C13 as stated: the local collection holds one Approval per id in every reachable
\* state, whatever the fetches (each with unique ids) and the decisions answered.
C13_OneApprovalPerId ==
    UniqueIds(internalApprovals)

\* C14: a decision is attempted once per user action and never retried.  A request
\* comes into flight only in the step of a click on Approve or Reject, one request
\* for the clicked id; a failed request leaves the flight and the collection as it
\* was, and no timer tick, fetch or settlement puts one back; the collection changes
\* only when a request a click started succeeds or a fetch response arrives.
C14_NoRetry ==
    [][/\ \A id \in Ids :
             CopiesIn(id, decisions') > CopiesIn(id, decisions) =>
                 /\ last'.op = "handleDecision"
                 /\ last'.id = id
                 /\ decisions' = decisions (+) SetToBag({id})
       /\ last'.op = "decisionFail" =>
             /\ decisions' = decisions (-) SetToBag({last'.id})
             /\ internalApprovals' = internalApprovals
       /\ internalApprovals' # internalApprovals =>
             last'.op \in {"decisionOk", "loadOk"}]_vars

\* After a decision failed, with the polling timer active, a fetch response arrived:
\* the record is still pending and no request is in flight.
C14_Witness ==
    /\ last.op = "loadOk"
    /\ error = UpdateFailedMessage
    /\ timers # EmptyBag
    /\ decisions = EmptyBag
    /\ \E i \in DOMAIN internalApprovals : internalApprovals[i].status = "pending"

====
